---- MODULE Spec2Model ----
(***************************************************************************)
(* Model of tool/bump_version.py: the release helper that reads the        *)
(* version of pubspec.yaml, collects the commits since the latest v* tag,  *)
(* classifies them, bumps the version, rewrites the manifest, prepends a   *)
(* changelog entry and reports to the GITHUB_OUTPUT file.                  *)
(*                                                                         *)
(* Text is a sequence of tokens.  A token is a record [k, n, z]: k is the  *)
(* token's spelling (a word, a punctuation mark, " " or "\n"), except for  *)
(* a run of decimal digits, which is k = "num" with value n and z leading  *)
(* zeros.  Python's string and regex operations are modelled on these      *)
(* sequences.                                                              *)
(***************************************************************************)
EXTENDS Integers, Sequences, FiniteSets, TLC

VARIABLES
    pc,               \* position of the process in main / __main__
    pubspec,          \* file pubspec.yaml: [exists, writable, content]
    changelog,        \* file CHANGELOG.md: [exists, writable, content]
    sink,             \* $GITHUB_OUTPUT: [set, writable, content]
    history,          \* git history, most recent first: seq of [subject, body]
    tags,             \* git tags, sorted by -v:refname: seq of [name, since]
    gitOk,            \* whether the git commands return 0
    today,            \* datetime.date.today().isoformat()
    current_version,  \* main: current_version
    tag,              \* main: tag
    commits,          \* main: commits
    release_type,     \* main: release_type
    new_version,      \* main: new_version
    changelog_entry,  \* main: changelog_entry
    exc,              \* the exception in flight ("" when none)
    stderr,           \* messages written to sys.stderr by this run
    exitCode,         \* exit status of the last finished run (-1: none yet)
    emitted,          \* _set_output calls made by this run: seq of [key, value]
    stages,           \* stages of main executed by this run, in order
    start,            \* files as they were when this run started
    runs              \* finished runs, oldest first

vars == <<pc, pubspec, changelog, sink, history, tags, gitOk, today,
          current_version, tag, commits, release_type, new_version,
          changelog_entry, exc, stderr, exitCode, emitted, stages, start, runs>>

(***************************************************************************)
(* Bounds of the model.                                                    *)
(***************************************************************************)
MaxVer == 2          \* version components of the inputs range over 0..MaxVer
MaxCommits == 2      \* length of the commit lists drawn as inputs
MaxRuns == 2         \* runs of the tool in a row
MaxLines == 3        \* lines of the manifests drawn as inputs

(***************************************************************************)
(* Text.                                                                   *)
(***************************************************************************)
T(k) == [k |-> k, n |-> 0, z |-> 0]
Num(n) == [k |-> "num", n |-> n, z |-> 0]
NumZ(n) == [k |-> "num", n |-> n, z |-> 1]     \* written with a leading 0
SP == T(" ")
NL == T("\n")
None == <<T("None")>>

\* str.isspace() of one token; the regex class \s (the separators \x1f and
\* \x1e are whitespace to Python)
IsSpace(t) == t.k \in {" ", "\n", "\\x1f", "\\x1e"}

\* the regex class [0-9]+
IsDigits(t) == t.k = "num"

RECURSIVE lstrip(_)
lstrip(s) == IF s # <<>> /\ IsSpace(Head(s)) THEN lstrip(Tail(s)) ELSE s

RECURSIVE rstrip(_)
rstrip(s) ==
    IF s # <<>> /\ IsSpace(s[Len(s)]) THEN rstrip(SubSeq(s, 1, Len(s) - 1)) ELSE s

\* str.strip()
strip(s) == rstrip(lstrip(s))

\* index of the first token of kind sep in s, 0 when there is none
RECURSIVE find(_, _, _)
find(s, sep, i) ==
    IF i > Len(s) THEN 0
    ELSE IF s[i].k = sep THEN i
    ELSE find(s, sep, i + 1)

\* str.split(sep)
RECURSIVE split(_, _)
split(s, sep) ==
    LET i == find(s, sep, 1) IN
    IF i = 0 THEN <<s>>
    ELSE <<SubSeq(s, 1, i - 1)>> \o split(SubSeq(s, i + 1, Len(s)), sep)

\* str.partition(sep): <<before, after>>
partition(s, sep) ==
    LET i == find(s, sep, 1) IN
    IF i = 0 THEN <<s, <<>>>>
    ELSE <<SubSeq(s, 1, i - 1), SubSeq(s, i + 1, Len(s))>>

\* str.splitlines()
splitlines(s) ==
    LET parts == split(s, "\n") IN
    IF parts[Len(parts)] = <<>> THEN SubSeq(parts, 1, Len(parts) - 1) ELSE parts

\* sep.join(list)
RECURSIVE join(_, _)
join(sep, list) ==
    IF list = <<>> THEN <<>>
    ELSE IF Len(list) = 1 THEN list[1]
    ELSE list[1] \o sep \o join(sep, Tail(list))

\* str.startswith(prefix)
startswith(s, prefix) ==
    Len(s) >= Len(prefix) /\ SubSeq(s, 1, Len(prefix)) = prefix

\* the operator  sub in s
contains(s, sub) ==
    \E i \in 1..(Len(s) - Len(sub) + 1) : SubSeq(s, i, i + Len(sub) - 1) = sub

\* str.upper() of one spelling
UpperK(k) ==
    CASE k = "feat" -> "FEAT"
      [] k = "Feat" -> "FEAT"
      [] k = "fix" -> "FIX"
      [] k = "docs" -> "DOCS"
      [] k = "chore" -> "CHORE"
      [] k = "release" -> "RELEASE"
      [] k = "breaking" -> "BREAKING"
      [] k = "Breaking" -> "BREAKING"
      [] k = "change" -> "CHANGE"
      [] k = "Change" -> "CHANGE"
      [] k = "ure" -> "URE"
      [] k = "ui" -> "UI"
      [] k = "add" -> "ADD"
      [] k = "bug" -> "BUG"
      [] k = "drop" -> "DROP"
      [] k = "x" -> "X"
      [] OTHER -> k

\* str.upper()
upper(s) == [i \in 1..Len(s) |-> [s[i] EXCEPT !.k = UpperK(s[i].k)]]

\* int(x) of a run of digits: the leading zeros are dropped
int(x) == x[1].n

\* str(n) of a non-negative integer
str(n) == <<Num(n)>>

\* the text X.Y.Z
VersionText(x, y, z) == <<Num(x), T("."), Num(y), T("."), Num(z)>>

(***************************************************************************)
(* _bump_version                                                           *)
(***************************************************************************)
\* faulty variant: a major bump that forgets to increment major
_bump_version_no_major(current, rtype) ==
    LET parts == split(current, ".")
        major == int(parts[1])
        minor == int(parts[2])
        patch == int(parts[3])
    IN  IF rtype = "major" THEN join(<<T(".")>>, <<str(major), str(0), str(0)>>)
        ELSE IF rtype = "minor" THEN join(<<T(".")>>, <<str(major), str(minor + 1), str(0)>>)
        ELSE join(<<T(".")>>, <<str(major), str(minor), str(patch + 1)>>)

\* faulty variant: a minor bump that forgets to reset patch
_bump_version_keep_patch(current, rtype) ==
    LET parts == split(current, ".")
        major == int(parts[1])
        minor == int(parts[2])
        patch == int(parts[3])
    IN  IF rtype = "major" THEN join(<<T(".")>>, <<str(major + 1), str(0), str(0)>>)
        ELSE IF rtype = "minor" THEN join(<<T(".")>>, <<str(major), str(minor + 1), str(patch)>>)
        ELSE join(<<T(".")>>, <<str(major), str(minor), str(patch + 1)>>)

_bump_version(current, rtype) ==
    LET parts == split(current, ".")
        major == int(parts[1])
        minor == int(parts[2])
        patch == int(parts[3])
    IN  IF rtype = "major" THEN join(<<T(".")>>, <<str(major + 1), str(0), str(0)>>)
        ELSE IF rtype = "minor" THEN join(<<T(".")>>, <<str(major), str(minor + 1), str(0)>>)
        ELSE join(<<T(".")>>, <<str(major), str(minor), str(patch + 1)>>)

(***************************************************************************)
(* git, as the two commands of the script see it.                          *)
(***************************************************************************)
US == T("\\x1f")
RS == T("\\x1e")

RECURSIVE Concat(_)
Concat(list) == IF list = <<>> THEN <<>> ELSE Head(list) \o Concat(Tail(list))

\* stdout of: git tag --list v* --sort=-v:refname  (one tag per line)
GitTagStdout == Concat([i \in 1..Len(tags) |-> tags[i].name \o <<NL>>])

\* the commits a range argument selects: tag..HEAD or HEAD
GitRange(range_arg) ==
    IF range_arg = <<T("HEAD")>> THEN history
    ELSE LET name == SubSeq(range_arg, 1, Len(range_arg) - 1)
             i == CHOOSE j \in 1..Len(tags) : tags[j].name = name
         IN  SubSeq(history, 1, tags[i].since)

\* stdout of: git log <range> --pretty=format:%s%x1f%b%x1e
\* (format: puts a newline between the commits, none after the last)
GitLogStdout(range_arg) ==
    LET cs == GitRange(range_arg) IN
    join(<<NL>>, [i \in 1..Len(cs) |-> cs[i].subject \o <<US>> \o cs[i].body \o <<RS>>])

\* _run: [ok, out]; the caller appends git's stderr and raises when ~ok
_run(cmd) ==
    IF cmd[1] = "tag"
    THEN [ok |-> gitOk # "tag", out |-> strip(GitTagStdout)]
    ELSE [ok |-> gitOk # "log", out |-> strip(GitLogStdout(cmd[2]))]

\* _latest_tag on the output of _run: the first non-blank line, or None
RECURSIVE FirstTag(_)
FirstTag(lines) ==
    IF lines = <<>> THEN None
    ELSE IF strip(Head(lines)) # <<>> THEN strip(Head(lines))
    ELSE FirstTag(Tail(lines))

_latest_tag(out) == FirstTag(splitlines(out))

range_arg_of(t) == IF t # None THEN t \o <<T("..HEAD")>> ELSE <<T("HEAD")>>

ReleaseMarker == <<T("chore"), T("("), T("release"), T(")")>>

\* faulty variant: the release commits are not filtered out
RECURSIVE CollectLoop_keep_release(_)
CollectLoop_keep_release(entries) ==
    IF entries = <<>> THEN <<>>
    ELSE LET entry == Head(entries)
             p == partition(entry, US.k)
             subject == strip(p[1])
             body == strip(p[2])
         IN  IF strip(entry) = <<>> THEN CollectLoop_keep_release(Tail(entries))
             ELSE IF subject = <<>> THEN CollectLoop_keep_release(Tail(entries))
             ELSE <<[subject |-> subject, body |-> body]>>
                  \o CollectLoop_keep_release(Tail(entries))

\* _collect_commits on the output of _run
RECURSIVE CollectLoop(_)
CollectLoop(entries) ==
    IF entries = <<>> THEN <<>>
    ELSE LET entry == Head(entries)
             p == partition(entry, US.k)
             subject == strip(p[1])
             body == strip(p[2])
         IN  IF strip(entry) = <<>> THEN CollectLoop(Tail(entries))
             ELSE IF subject = <<>> \/ startswith(subject, ReleaseMarker)
                  THEN CollectLoop(Tail(entries))
             ELSE <<[subject |-> subject, body |-> body]>> \o CollectLoop(Tail(entries))

_collect_commits(out) == CollectLoop(split(out, RS.k))

(***************************************************************************)
(* _determine_bump                                                         *)
(***************************************************************************)
\* re.search(r"!:", subject)
SearchBang(subject) == contains(subject, <<T("!"), T(":")>>)

\* "BREAKING CHANGE" in normalized or "BREAKING-CHANGE" in normalized
HasBreaking(subject, body) ==
    LET normalized == upper(subject \o <<NL>> \o body) IN
    \/ contains(normalized, <<T("BREAKING"), SP, T("CHANGE")>>)
    \/ contains(normalized, <<T("BREAKING"), T("-"), T("CHANGE")>>)

\* re.match(r"^feat(\(|:|!)", subject, flags=re.IGNORECASE)
MatchFeat(subject) ==
    /\ Len(subject) >= 2
    /\ UpperK(subject[1].k) = "FEAT"
    /\ subject[2].k \in {"(", ":", "!"}

\* faulty variant: the loop returns at the first feat commit
RECURSIVE BumpLoop_first_feat(_, _)
BumpLoop_first_feat(cs, level) ==
    IF cs = <<>> THEN level
    ELSE LET subject == Head(cs).subject
             body == Head(cs).body
         IN  IF SearchBang(subject) THEN "major"
             ELSE IF HasBreaking(subject, body) THEN "major"
             ELSE IF MatchFeat(subject) THEN "minor"
             ELSE BumpLoop_first_feat(Tail(cs), level)

\* the for loop of _determine_bump, level being its local variable
RECURSIVE BumpLoop(_, _)
BumpLoop(cs, level) ==
    IF cs = <<>> THEN level
    ELSE LET subject == Head(cs).subject
             body == Head(cs).body
         IN  IF SearchBang(subject) THEN "major"
             ELSE IF HasBreaking(subject, body) THEN "major"
             ELSE IF level # "minor" /\ MatchFeat(subject)
                  THEN BumpLoop(Tail(cs), "minor")
                  ELSE BumpLoop(Tail(cs), level)

_determine_bump(cs) == BumpLoop(cs, "patch")

(***************************************************************************)
(* The version pattern  ^version:\s*([0-9]+\.[0-9]+\.[0-9]+)  (MULTILINE)  *)
(***************************************************************************)
\* index of the first non-space token at or after i (Len(s) + 1 if none)
RECURSIVE SkipSpace(_, _)
SkipSpace(s, i) ==
    IF i <= Len(s) /\ IsSpace(s[i]) THEN SkipSpace(s, i + 1) ELSE i

\* whether [0-9]+\.[0-9]+\.[0-9]+ matches at index j
DigitsAt(s, j) ==
    /\ j + 4 <= Len(s)
    /\ IsDigits(s[j]) /\ s[j + 1].k = "." /\ IsDigits(s[j + 2])
    /\ s[j + 3].k = "." /\ IsDigits(s[j + 4])

\* whether the pattern matches at index i
VersionAt(s, i) ==
    /\ i + 1 <= Len(s)
    /\ (i = 1 \/ s[i - 1].k = "\n")
    /\ s[i].k = "version" /\ s[i + 1].k = ":"
    /\ DigitsAt(s, SkipSpace(s, i + 2))

\* start of the leftmost match, 0 when there is none
VersionSearch(s) ==
    IF \E i \in 1..Len(s) : VersionAt(s, i)
    THEN CHOOSE i \in 1..Len(s) :
            VersionAt(s, i) /\ \A j \in 1..(i - 1) : ~VersionAt(s, j)
    ELSE 0

\* start of group 2 of a match starting at i
DigitsStart(s, i) == SkipSpace(s, i + 2)

(***************************************************************************)
(* _replace_version: [raised, file]                                        *)
(***************************************************************************)
\* faulty variant: the substitution without count=1, every match is rewritten
RECURSIVE SubFrom(_, _, _)
SubFrom(s, i, version) ==
    IF i > Len(s) THEN s
    ELSE IF VersionAt(s, i)
    THEN LET j == DigitsStart(s, i) IN
         SubFrom(SubSeq(s, 1, j - 1) \o version \o SubSeq(s, j + 5, Len(s)), j + 5, version)
    ELSE SubFrom(s, i + 1, version)

re_sub_all(content, version) == SubFrom(content, 1, version)

re_sub(content, version) ==
    LET i == VersionSearch(content) IN
    IF i = 0 THEN content
    ELSE LET j == DigitsStart(content, i) IN
         SubSeq(content, 1, j - 1) \o version \o SubSeq(content, j + 5, Len(content))

_replace_version(file, version) ==
    IF ~file.exists THEN [raised |-> "FileNotFoundError", file |-> file]
    ELSE LET content == file.content
             updated == re_sub(content, version)
         IN  IF content = updated
             THEN [raised |-> "Failed to update version in pubspec.yaml", file |-> file]
             ELSE IF ~file.writable
             THEN [raised |-> "PermissionError", file |-> file]
             ELSE [raised |-> "", file |-> [file EXCEPT !.content = updated]]

(***************************************************************************)
(* _update_changelog: [raised, file, ret]                                  *)
(***************************************************************************)
NoNotableChanges == <<T("No"), SP, T("notable"), SP, T("changes")>>

Header(version, date) == <<T("##"), SP>> \o version \o <<SP, T("-"), SP>> \o date

Bullet(line) == <<T("-"), SP>> \o line

\* faulty variant: the bullets are written oldest first
NewEntry_oldest_first(version, cs, date) ==
    LET subjects == [i \in 1..Len(cs) |-> cs[Len(cs) + 1 - i].subject]
        bullet_lines == IF subjects # <<>> THEN subjects ELSE <<NoNotableChanges>>
        new_entry_lines ==
            <<Header(version, date), <<>>>>
            \o [i \in 1..Len(bullet_lines) |-> Bullet(bullet_lines[i])]
            \o <<<<>>>>
    IN  join(<<NL>>, new_entry_lines)

NewEntry(version, cs, date) ==
    LET subjects == [i \in 1..Len(cs) |-> cs[i].subject]
        bullet_lines == IF subjects # <<>> THEN subjects ELSE <<NoNotableChanges>>
        new_entry_lines ==
            <<Header(version, date), <<>>>>
            \o [i \in 1..Len(bullet_lines) |-> Bullet(bullet_lines[i])]
            \o <<<<>>>>
    IN  join(<<NL>>, new_entry_lines)

\* faulty variant: the previous content is dropped
Combined_drop(new_entry, previous) == new_entry \o <<NL>>

Combined(new_entry, previous) ==
    new_entry \o (IF previous # <<>> THEN <<NL, NL>> \o previous ELSE <<NL>>)

\* faulty variant: the previous content is not stripped
_update_changelog_no_strip(file, version, cs, date) ==
    LET new_entry == NewEntry(version, cs, date)
        previous == IF file.exists THEN file.content ELSE <<>>
        combined == Combined(new_entry, previous)
    IN  IF ~file.writable
        THEN [raised |-> "PermissionError", file |-> file, ret |-> <<>>]
        ELSE [raised |-> "",
              file |-> [exists |-> TRUE, writable |-> TRUE, content |-> combined],
              ret |-> new_entry]

_update_changelog(file, version, cs, date) ==
    LET new_entry == NewEntry(version, cs, date)
        previous == IF file.exists THEN strip(file.content) ELSE <<>>
        combined == Combined(new_entry, previous)
    IN  IF ~file.writable
        THEN [raised |-> "PermissionError", file |-> file, ret |-> <<>>]
        ELSE [raised |-> "",
              file |-> [exists |-> TRUE, writable |-> TRUE, content |-> combined],
              ret |-> new_entry]

(***************************************************************************)
(* _set_output: [raised, file]                                             *)
(***************************************************************************)
_set_output(file, key, value) ==
    IF ~file.set THEN [raised |-> "", file |-> file]
    ELSE IF ~file.writable THEN [raised |-> "PermissionError", file |-> file]
    ELSE IF \E i \in 1..Len(value) : value[i].k = "\n"
    THEN [raised |-> "",
          file |-> [file EXCEPT !.content =
                       @ \o <<T(key), T("<<EOF"), NL>> \o value \o <<NL, T("EOF"), NL>>]]
    ELSE [raised |-> "",
          file |-> [file EXCEPT !.content = @ \o <<T(key), T("=")>> \o value \o <<NL>>]]

(***************************************************************************)
(* Inputs of the runs of main.                                             *)
(***************************************************************************)
Date1 == <<T("2026-11-06")>>

Txt(w1, w2) == <<T(w1), T(":"), SP, T(w2)>>

NameLine == <<T("name"), T(":"), SP, T("riverboot")>>

VersionLine(v) == <<T("version"), T(":"), SP>> \o v

\* the texts X.Y.Z with components in 0..m
Versions(m) == {VersionText(a, b, c) : a, b, c \in 0..m}

\* pubspec.yaml contents: a name line, the version line, a trailing line
Manifest(v) == NameLine \o <<NL>> \o VersionLine(v) \o <<NL>> \o Txt("sdk", "x") \o <<NL>>

File(content) == [exists |-> TRUE, writable |-> TRUE, content |-> content]
ReadOnly(content) == [exists |-> TRUE, writable |-> FALSE, content |-> content]
NoFile == [exists |-> FALSE, writable |-> TRUE, content |-> <<>>]

MainManifests ==
    {File(Manifest(VersionText(0, 4, 1))),
     File(NameLine \o <<NL>>),                        \* no version line
     File(<<T("version"), T(":"), NL, SP>> \o VersionText(1, 0, 0) \o <<NL>>
          \o VersionLine(VersionText(2, 0, 0)) \o <<NL>>),
     ReadOnly(Manifest(VersionText(0, 4, 1))),
     NoFile}

OldText == <<T("#"), SP, T("Changelog")>>

MainChangelogs ==
    {NoFile, File(<<>>), File(OldText \o <<NL>>), ReadOnly(OldText \o <<NL>>)}

MainSinks ==
    {[set |-> FALSE, writable |-> TRUE, content |-> <<>>],
     [set |-> TRUE, writable |-> TRUE, content |-> <<>>],
     [set |-> TRUE, writable |-> FALSE, content |-> <<>>]}

Commit(subject, body) == [subject |-> subject, body |-> body]

\* commits of the repository as git prints them: %s is one line without
\* surrounding blanks, empty only when the whole message is; %b may end with
\* a newline
MainCommits ==
    {Commit(<<T("feat"), T(":"), SP, T("add"), SP, T("X")>>, <<>>),
     Commit(<<T("fix"), T(":"), SP, T("bug")>>, <<T("x"), NL>>),
     Commit(<<T("fix"), T("!"), T(":"), SP, T("drop")>>, <<>>),
     Commit(ReleaseMarker \o <<T(":"), SP>> \o VersionText(0, 4, 1), <<>>),
     Commit(<<>>, <<>>)}

RECURSIVE SeqsUpTo(_, _)
SeqsUpTo(S, n) ==
    IF n = 0 THEN {<<>>}
    ELSE LET shorter == SeqsUpTo(S, n - 1) IN
         shorter \cup {<<x>> \o s : x \in S, s \in {t \in shorter : Len(t) = n - 1}}

TagName(i) == <<T(IF i = 1 THEN "v0.4.1" ELSE "v0.4.0")>>

\* the tags of a history: none, one on HEAD, or one on each of the two
\* oldest commits
TagsOf(h) ==
    {<<>>, <<[name |-> TagName(1), since |-> 0]>>}
    \cup (IF Len(h) >= 1
          THEN {<<[name |-> TagName(1), since |-> Len(h) - 1],
                  [name |-> TagName(2), since |-> Len(h)]>>}
          ELSE {})

GitOutcomes == {"ok", "tag", "log"}

(***************************************************************************)
(* main and __main__, one action per stage.                                *)
(***************************************************************************)
Locals0 ==
    /\ current_version = <<>>
    /\ tag = None
    /\ commits = <<>>
    /\ release_type = ""
    /\ new_version = <<>>
    /\ changelog_entry = <<>>
    /\ exc = ""

Init ==
    /\ pc = "idle"
    /\ pubspec \in MainManifests
    /\ changelog \in MainChangelogs
    /\ sink \in MainSinks
    /\ history \in SeqsUpTo(MainCommits, MaxCommits)
    /\ tags \in TagsOf(history)
    /\ gitOk \in GitOutcomes
    /\ today = Date1
    /\ Locals0
    /\ stderr = <<>>
    /\ exitCode = -1
    /\ emitted = <<>>
    /\ stages = <<>>
    /\ start = [pubspec |-> pubspec, changelog |-> changelog, sink |-> sink]
    /\ runs = <<>>

env == <<history, tags, gitOk, today>>
files == <<pubspec, changelog, sink>>
locals == <<current_version, tag, commits, release_type, new_version, changelog_entry>>

\* the process is started: python tool/bump_version.py
StartRun ==
    /\ pc = "idle"
    /\ Len(runs) < MaxRuns
    /\ pc' = "read_version"
    /\ current_version' = <<>>
    /\ tag' = None
    /\ commits' = <<>>
    /\ release_type' = ""
    /\ new_version' = <<>>
    /\ changelog_entry' = <<>>
    /\ exc' = ""
    /\ stderr' = <<>>
    /\ emitted' = <<>>
    /\ stages' = <<>>
    /\ start' = [pubspec |-> pubspec, changelog |-> changelog, sink |-> sink]
    /\ UNCHANGED <<files, env, exitCode, runs>>

Raise(e) == exc' = e /\ pc' = "except"

\* main: read pubspec.yaml and search the version
ReadVersion ==
    /\ pc = "read_version"
    /\ stages' = Append(stages, "read_version")
    /\ IF ~pubspec.exists
       THEN Raise("FileNotFoundError") /\ UNCHANGED current_version
       ELSE LET i == VersionSearch(pubspec.content) IN
            IF i = 0
            THEN Raise("Could not find version in pubspec.yaml") /\ UNCHANGED current_version
            ELSE /\ current_version' =
                        SubSeq(pubspec.content, DigitsStart(pubspec.content, i),
                               DigitsStart(pubspec.content, i) + 4)
                 /\ pc' = "latest_tag"
                 /\ exc' = exc
    /\ UNCHANGED <<files, env, tag, commits, release_type, new_version,
                   changelog_entry, stderr, exitCode, emitted, start, runs>>

\* main: tag = _latest_tag()
LatestTag ==
    /\ pc = "latest_tag"
    /\ stages' = Append(stages, "latest_tag")
    /\ LET r == _run(<<"tag">>) IN
       IF ~r.ok
       THEN /\ stderr' = Append(stderr, "git: fatal")
            /\ Raise("Command failed: git tag")
            /\ tag' = tag
       ELSE /\ tag' = _latest_tag(r.out)
            /\ pc' = "collect_commits"
            /\ UNCHANGED <<stderr, exc>>
    /\ UNCHANGED <<files, env, current_version, commits, release_type, new_version,
                   changelog_entry, exitCode, emitted, start, runs>>

\* main: commits = _collect_commits(tag)
CollectCommits ==
    /\ pc = "collect_commits"
    /\ stages' = Append(stages, "collect_commits")
    /\ LET r == _run(<<"log", range_arg_of(tag)>>) IN
       IF ~r.ok
       THEN /\ stderr' = Append(stderr, "git: fatal")
            /\ Raise("Command failed: git log")
            /\ commits' = commits
       ELSE /\ commits' = _collect_commits(r.out)
            /\ pc' = "decide"
            /\ UNCHANGED <<stderr, exc>>
    /\ UNCHANGED <<files, env, current_version, tag, release_type, new_version,
                   changelog_entry, exitCode, emitted, start, runs>>

\* main: if not commits: _set_output("skip", "true"); return 0
Skip ==
    /\ pc = "decide"
    /\ commits = <<>>
    /\ stages' = Append(stages, "skip")
    /\ LET r == _set_output(sink, "skip", <<T("true")>>) IN
       IF r.raised # ""
       THEN Raise(r.raised) /\ UNCHANGED <<sink, emitted>>
       ELSE /\ sink' = r.file
            /\ emitted' = Append(emitted, [key |-> "skip", value |-> <<T("true")>>])
            /\ pc' = "return"
            /\ exc' = exc
    /\ UNCHANGED <<pubspec, changelog, env, locals, stderr, exitCode, start, runs>>

\* main: release_type = _determine_bump(commits); new_version = _bump_version(...)
Classify ==
    /\ pc = "decide"
    /\ commits # <<>>
    /\ stages' = Append(stages, "classify")
    /\ release_type' = _determine_bump(commits)
    /\ new_version' = _bump_version(current_version, _determine_bump(commits))
    /\ pc' = "replace_version"
    /\ UNCHANGED <<files, env, current_version, tag, commits, changelog_entry,
                   exc, stderr, exitCode, emitted, start, runs>>

\* main: _replace_version(pubspec_path, new_version)
ReplaceVersion ==
    /\ pc = "replace_version"
    /\ stages' = Append(stages, "replace_version")
    /\ LET r == _replace_version(pubspec, new_version) IN
       /\ pubspec' = r.file
       /\ IF r.raised # "" THEN Raise(r.raised)
          ELSE pc' = "update_changelog" /\ exc' = exc
    /\ UNCHANGED <<changelog, sink, env, locals, stderr, exitCode, emitted, start, runs>>

\* faulty variant: a failing changelog write restores the manifest
UpdateChangelog_rollback ==
    /\ pc = "update_changelog"
    /\ stages' = Append(stages, "update_changelog")
    /\ LET r == _update_changelog(changelog, new_version, commits, today) IN
       /\ changelog' = r.file
       /\ IF r.raised # ""
          THEN Raise(r.raised) /\ UNCHANGED changelog_entry /\ pubspec' = start.pubspec
          ELSE /\ changelog_entry' = r.ret
               /\ pc' = "set_outputs"
               /\ exc' = exc
               /\ pubspec' = pubspec
    /\ UNCHANGED <<sink, env, current_version, tag, commits, release_type,
                   new_version, stderr, exitCode, emitted, start, runs>>

\* main: changelog_entry = _update_changelog(changelog_path, new_version, commits)
UpdateChangelog ==
    /\ pc = "update_changelog"
    /\ stages' = Append(stages, "update_changelog")
    /\ LET r == _update_changelog(changelog, new_version, commits, today) IN
       /\ changelog' = r.file
       /\ IF r.raised # "" THEN Raise(r.raised) /\ UNCHANGED changelog_entry
          ELSE /\ changelog_entry' = r.ret
               /\ pc' = "set_outputs"
               /\ exc' = exc
    /\ UNCHANGED <<pubspec, sink, env, current_version, tag, commits, release_type,
                   new_version, stderr, exitCode, emitted, start, runs>>

\* main: the three _set_output calls skip, version, release_notes
SetOutputs ==
    /\ pc = "set_outputs"
    /\ stages' = Append(stages, "set_outputs")
    /\ LET r1 == _set_output(sink, "skip", <<T("false")>>)
           r2 == _set_output(r1.file, "version", new_version)
           r3 == _set_output(r2.file, "release_notes", changelog_entry)
           e1 == [key |-> "skip", value |-> <<T("false")>>]
           e2 == [key |-> "version", value |-> new_version]
           e3 == [key |-> "release_notes", value |-> changelog_entry]
       IN  IF r1.raised # ""
           THEN Raise(r1.raised) /\ UNCHANGED <<sink, emitted>>
           ELSE IF r2.raised # ""
           THEN Raise(r2.raised) /\ sink' = r1.file /\ emitted' = emitted \o <<e1>>
           ELSE IF r3.raised # ""
           THEN Raise(r3.raised) /\ sink' = r2.file /\ emitted' = emitted \o <<e1, e2>>
           ELSE /\ sink' = r3.file
                /\ emitted' = emitted \o <<e1, e2, e3>>
                /\ pc' = "return"
                /\ exc' = exc
    /\ UNCHANGED <<pubspec, changelog, env, locals, stderr, exitCode, start, runs>>

\* what is known of a finished run
RunRecord(code) ==
    [code |-> code,
     exc |-> exc,
     stages |-> stages,
     released |-> Len(stages) > 0 /\ stages[Len(stages)] = "set_outputs" /\ code = 0,
     version |-> new_version,
     subjects |-> [i \in 1..Len(commits) |-> commits[i].subject],
     before |-> start,
     after |-> [pubspec |-> pubspec, changelog |-> changelog, sink |-> sink]]

\* main returns 0 and __main__ raises SystemExit(0)
Return ==
    /\ pc = "return"
    /\ exitCode' = 0
    /\ runs' = Append(runs, RunRecord(0))
    /\ pc' = "idle"
    /\ UNCHANGED <<files, env, locals, exc, stderr, emitted, stages, start>>

\* faulty variant: the handler reports the error and does not re-raise
Except_swallow ==
    /\ pc = "except"
    /\ stderr' = Append(stderr, "Error: " \o exc)
    /\ exitCode' = 0
    /\ runs' = Append(runs, RunRecord(0))
    /\ pc' = "idle"
    /\ UNCHANGED <<files, env, locals, exc, emitted, stages, start>>

\* __main__: except Exception: write the message to stderr and re-raise
Except ==
    /\ pc = "except"
    /\ stderr' = Append(stderr, "Error: " \o exc)
    /\ exitCode' = 1
    /\ runs' = Append(runs, RunRecord(1))
    /\ pc' = "idle"
    /\ UNCHANGED <<files, env, locals, exc, emitted, stages, start>>

Next ==
    \/ StartRun
    \/ ReadVersion
    \/ LatestTag
    \/ CollectCommits
    \/ Skip
    \/ Classify
    \/ ReplaceVersion
    \/ UpdateChangelog
    \/ SetOutputs
    \/ Return
    \/ Except

Spec == Init /\ [][Next]_vars

(***************************************************************************)
(* The functions on their own: the inputs are drawn by the initial         *)
(* condition and one action calls the function.                            *)
(***************************************************************************)
NoSink == [set |-> FALSE, writable |-> TRUE, content |-> <<>>]

Rest0 ==
    /\ sink = NoSink
    /\ history = <<>>
    /\ tags = <<>>
    /\ gitOk = "ok"
    /\ today = Date1
    /\ tag = None
    /\ changelog_entry = <<>>
    /\ exc = ""
    /\ stderr = <<>>
    /\ exitCode = -1
    /\ emitted = <<>>
    /\ stages = <<>>
    /\ runs = <<>>

\* digit runs with value in 0..m, with and without a leading zero
Digits(m) == {Num(n) : n \in 0..m} \cup {NumZ(n) : n \in 0..m}

InitBump ==
    /\ pc = "call"
    /\ current_version \in
          {<<a, T("."), b, T("."), c>> : a \in Digits(MaxVer), b, c \in {Num(n) : n \in 0..MaxVer}}
    /\ release_type \in {"major", "minor", "patch"}
    /\ new_version = <<>>
    /\ commits = <<>>
    /\ pubspec = NoFile
    /\ changelog = NoFile
    /\ Rest0
    /\ start = [pubspec |-> pubspec, changelog |-> changelog, sink |-> sink]

BumpCall ==
    /\ pc = "call"
    /\ new_version' = _bump_version(current_version, release_type)
    /\ pc' = "done"
    /\ UNCHANGED <<files, env, current_version, tag, commits, release_type,
                   changelog_entry, exc, stderr, exitCode, emitted, stages, start, runs>>

SpecBump == InitBump /\ [][BumpCall]_vars

ClassifyCommits ==
    {Commit(<<T("feat"), T(":"), SP, T("add"), SP, T("X")>>, <<>>),
     Commit(<<T("Feat"), T("("), T("ui"), T(")"), T(":"), SP, T("x")>>, <<>>),
     Commit(<<T("feat"), T("!"), SP, T("x")>>, <<>>),
     Commit(<<T("feat"), T("ure"), T(":"), SP, T("x")>>, <<>>),
     Commit(<<T("docs"), T(":"), SP, T("feat"), T(":"), SP, T("x")>>, <<>>),
     Commit(<<T("fix"), T(":"), SP, T("bug")>>, <<>>),
     Commit(<<T("fix"), T("!"), T(":"), SP, T("drop")>>, <<>>),
     Commit(<<T("fix"), T(":"), SP, T("bug")>>, <<T("BREAKING"), SP, T("CHANGE"), T(":"), SP, T("x")>>),
     Commit(<<T("fix"), T(":"), SP, T("Breaking"), T("-"), T("change")>>, <<>>),
     Commit(<<T("fix"), T(":"), SP, T("breaking")>>, <<T("change")>>)}

InitClassify ==
    /\ pc = "call"
    /\ commits \in SeqsUpTo(ClassifyCommits, MaxCommits)
    /\ release_type = ""
    /\ current_version = <<>>
    /\ new_version = <<>>
    /\ pubspec = NoFile
    /\ changelog = NoFile
    /\ Rest0
    /\ start = [pubspec |-> pubspec, changelog |-> changelog, sink |-> sink]

ClassifyCall ==
    /\ pc = "call"
    /\ release_type' = _determine_bump(commits)
    /\ pc' = "done"
    /\ UNCHANGED <<files, env, current_version, tag, commits, new_version,
                   changelog_entry, exc, stderr, exitCode, emitted, stages, start, runs>>

SpecClassify == InitClassify /\ [][ClassifyCall]_vars

(***************************************************************************)
(* C1: for every version X.Y.Z of non-negative integers, a patch bump      *)
(* gives X.Y.(Z+1), a minor bump X.(Y+1).0 and a major bump (X+1).0.0,     *)
(* written in canonical decimal form.                                      *)
(***************************************************************************)
C1_BumpArithmetic ==
    pc = "done" =>
        LET X == current_version[1].n
            Y == current_version[3].n
            Z == current_version[5].n
        IN  /\ release_type = "patch" => new_version = VersionText(X, Y, Z + 1)
            /\ release_type = "minor" => new_version = VersionText(X, Y + 1, 0)
            /\ release_type = "major" => new_version = VersionText(X + 1, 0, 0)

C1_Witness ==
    /\ pc = "done"
    /\ release_type = "minor"
    /\ current_version = <<NumZ(1), T("."), Num(2), T("."), Num(2)>>
    /\ new_version = VersionText(1, 3, 0)

(***************************************************************************)
(* C2: _determine_bump returns major iff some commit has "!:" in its       *)
(* subject or BREAKING CHANGE / BREAKING-CHANGE (any case) in subject and  *)
(* body; otherwise minor iff some subject starts with feat followed by     *)
(* "(", ":" or "!" (any case); otherwise patch; and the result is the same *)
(* for every permutation of the list.                                      *)
(***************************************************************************)
SameWord(k1, k2) == UpperK(k1) = UpperK(k2)

ClaimBang(c) ==
    \E i \in 1..(Len(c.subject) - 1) : c.subject[i].k = "!" /\ c.subject[i + 1].k = ":"

ClaimBreakingText(c) ==
    LET text == c.subject \o <<NL>> \o c.body IN
    \E i \in 1..(Len(text) - 2) :
        /\ SameWord(text[i].k, "breaking")
        /\ text[i + 1].k \in {" ", "-"}
        /\ SameWord(text[i + 2].k, "change")

ClaimFeat(c) ==
    /\ Len(c.subject) >= 2
    /\ SameWord(c.subject[1].k, "feat")
    /\ c.subject[2].k \in {"(", ":", "!"}

ClaimLevel(cs) ==
    IF \E i \in 1..Len(cs) : ClaimBang(cs[i]) \/ ClaimBreakingText(cs[i]) THEN "major"
    ELSE IF \E i \in 1..Len(cs) : ClaimFeat(cs[i]) THEN "minor"
    ELSE "patch"

Permuted(cs, f) == [i \in 1..Len(cs) |-> cs[f[i]]]

C2_Classification ==
    pc = "done" =>
        /\ release_type = ClaimLevel(commits)
        /\ \A f \in Permutations(1..Len(commits)) :
              _determine_bump(Permuted(commits, f)) = release_type

C2_Witness ==
    /\ pc = "done"
    /\ Len(commits) = 2
    /\ ClaimFeat(commits[1]) /\ ~ClaimBang(commits[1]) /\ ~ClaimBreakingText(commits[1])
    /\ ClaimBang(commits[2])
    /\ release_type = "major"

(***************************************************************************)
(* _replace_version on its own.                                            *)
(***************************************************************************)
V123 == VersionText(1, 2, 3)

\* the lines a manifest is made of
ManifestLines ==
    {NameLine,
     VersionLine(V123),
     VersionLine(<<NumZ(1), T("."), Num(2), T("."), Num(3)>>) \o <<T("+"), Num(4)>>,
     <<T("version"), T(":")>> \o VersionText(0, 0, 9),          \* no space
     <<SP>> \o VersionLine(V123),                                 \* indented
     <<T("version"), T(":")>>,                                    \* no value
     <<SP, SP>> \o VersionText(2, 0, 0)}                          \* a value alone

Lines(n) == {join(<<NL>>, ls) : ls \in SeqsUpTo(ManifestLines, n)}

InitReplace ==
    /\ pc = "call"
    /\ pubspec \in {File(c) : c \in Lines(MaxLines)}
    /\ new_version \in {VersionText(1, 2, 4), V123}
    /\ current_version = <<>>
    /\ release_type = ""
    /\ commits = <<>>
    /\ changelog = NoFile
    /\ Rest0
    /\ start = [pubspec |-> pubspec, changelog |-> changelog, sink |-> sink]

ReplaceCall ==
    /\ pc = "call"
    /\ LET r == _replace_version(pubspec, new_version) IN
       /\ pubspec' = r.file
       /\ exc' = r.raised
    /\ pc' = "done"
    /\ UNCHANGED <<changelog, sink, env, locals, stderr, exitCode, emitted,
                   stages, start, runs>>

SpecReplace == InitReplace /\ [][ReplaceCall]_vars

(***************************************************************************)
(* C4 as stated: if the manifest has a line version: X.Y.Z, a successful   *)
(* _replace_version rewrites only the digits of the first such line; all   *)
(* other lines, and the prefix of that line, are the same as before.       *)
(***************************************************************************)
\* whether a line is  version:<blanks>X.Y.Z<anything>
IsVersionLine(line) ==
    /\ Len(line) >= 7
    /\ line[1].k = "version" /\ line[2].k = ":"
    /\ \E j \in 3..(Len(line) - 4) :
          /\ \A q \in 3..(j - 1) : line[q].k = " "
          /\ DigitsAt(line, j)

\* index of the first digit run of a version line
LineDigits(line) == CHOOSE j \in 3..(Len(line) - 4) :
                        (\A q \in 3..(j - 1) : line[q].k = " ") /\ DigitsAt(line, j)

HasVersionLine(content) ==
    \E k \in 1..Len(split(content, "\n")) : IsVersionLine(split(content, "\n")[k])

FirstVersionLine(content) ==
    LET ls == split(content, "\n") IN
    CHOOSE k \in 1..Len(ls) : IsVersionLine(ls[k]) /\ \A q \in 1..(k - 1) : ~IsVersionLine(ls[q])

RewrittenLine(line, version) ==
    LET j == LineDigits(line) IN
    SubSeq(line, 1, j - 1) \o version \o SubSeq(line, j + 5, Len(line))

C4_Original ==
    (pc = "done" /\ exc = "" /\ HasVersionLine(start.pubspec.content)) =>
        LET old == split(start.pubspec.content, "\n")
            new == split(pubspec.content, "\n")
            k == FirstVersionLine(start.pubspec.content)
        IN  /\ Len(new) = Len(old)
            /\ \A q \in 1..Len(old) :
                  new[q] = IF q = k THEN RewrittenLine(old[q], new_version) ELSE old[q]

(***************************************************************************)
(* C4 amended: a successful _replace_version rewrites only the digits      *)
(* X.Y.Z of the first match of the pattern version:<whitespace>X.Y.Z       *)
(* anchored at a line start, where the whitespace may include line breaks; *)
(* every other token of the file, later matches included, is unchanged.    *)
(* When no line break separates that "version:" from its digits, this is   *)
(* the first version line of the manifest.                                 *)
(***************************************************************************)
\* whether a match starts at i: "version" ":" at a line start, then only
\* blanks and line breaks, then X.Y.Z starting at j
MatchesAt(s, i, j) ==
    /\ (i = 1 \/ s[i - 1] = NL)
    /\ i + 1 <= Len(s) /\ s[i] = T("version") /\ s[i + 1] = T(":")
    /\ j >= i + 2 /\ j + 4 <= Len(s)
    /\ \A q \in (i + 2)..(j - 1) : s[q] \in {SP, NL}
    /\ s[j].k = "num" /\ s[j + 1] = T(".") /\ s[j + 2].k = "num"
    /\ s[j + 3] = T(".") /\ s[j + 4].k = "num"

Matches(s) ==
    UNION {{<<i, j>> : j \in {q \in (i + 2)..Len(s) : MatchesAt(s, i, q)}} :
              i \in {p \in 1..Len(s) : s[p] = T("version")}}

\* the match that starts first
FirstMatch(s) ==
    LET ms == Matches(s) IN CHOOSE x \in ms : \A y \in ms : x[1] <= y[1]

C4_FirstMatchOnly ==
    (pc = "done" /\ exc = "") =>
        LET old == start.pubspec.content
            new == pubspec.content
            m == FirstMatch(old)
        IN  /\ Matches(old) # {}
            /\ Len(new) = Len(old)
            /\ SubSeq(new, m[2], m[2] + 4) = new_version
            /\ \A q \in 1..Len(old) : (q < m[2] \/ q > m[2] + 4) => new[q] = old[q]
            /\ (\A q \in m[1]..m[2] : old[q] # NL) =>
                  LET ols == split(old, "\n")
                      k == FirstVersionLine(old)
                  IN  split(new, "\n") =
                         [q \in 1..Len(ols) |->
                             IF q = k THEN RewrittenLine(ols[q], new_version) ELSE ols[q]]

\* two version lines: the first is rewritten, the second is kept
C4_Witness ==
    /\ pc = "done" /\ exc = ""
    /\ start.pubspec.content =
          join(<<NL>>, <<NameLine, VersionLine(V123), VersionLine(V123)>>)
    /\ pubspec.content =
          join(<<NL>>, <<NameLine, VersionLine(VersionText(1, 2, 4)), VersionLine(V123)>>)

(***************************************************************************)
(* _update_changelog on its own.                                           *)
(***************************************************************************)
ParsedCommits ==
    {Commit(<<T("feat"), T(":"), SP, T("add"), SP, T("X")>>, <<>>),
     Commit(<<T("fix"), T(":"), SP, T("bug")>>, <<T("x")>>),
     Commit(<<T("fix"), T("!"), T(":"), SP, T("drop")>>, <<>>)}

\* CHANGELOG.md before the call: absent, empty, blank, hand-written with and
\* without surrounding line breaks, or as a previous call left it
ChangelogInputs ==
    {NoFile, File(<<>>), File(<<NL>>), File(OldText), File(OldText \o <<NL>>),
     File(<<NL, SP>> \o OldText \o <<NL, NL>>),
     File(Combined(NewEntry(VersionText(0, 4, 1), <<>>, Date1), <<>>)),
     File(Combined(NewEntry(VersionText(0, 4, 1), <<>>, Date1), OldText))}

InitChangelog ==
    /\ pc = "call"
    /\ changelog \in ChangelogInputs
    /\ new_version \in Versions(1)
    /\ commits \in SeqsUpTo(ParsedCommits, MaxCommits)
    /\ current_version = <<>>
    /\ release_type = ""
    /\ pubspec = NoFile
    /\ Rest0
    /\ start = [pubspec |-> pubspec, changelog |-> changelog, sink |-> sink]

ChangelogCall ==
    /\ pc = "call"
    /\ LET r == _update_changelog(changelog, new_version, commits, today) IN
       /\ changelog' = r.file
       /\ changelog_entry' = r.ret
       /\ exc' = r.raised
    /\ pc' = "done"
    /\ UNCHANGED <<pubspec, sink, env, current_version, tag, commits, release_type,
                   new_version, stderr, exitCode, emitted, stages, start, runs>>

SpecChangelog == InitChangelog /\ [][ChangelogCall]_vars

\* the entry as the claims describe it: the header line, a blank line, one
\* bullet line per subject, each line ended by a line break
ClaimBullets(subjects) == Concat([i \in 1..Len(subjects) |-> <<T("-"), SP>> \o subjects[i] \o <<NL>>])

ClaimEntry(version, subjects, date) ==
    <<T("##"), SP>> \o version \o <<SP, T("-"), SP>> \o date \o <<NL, NL>>
    \o ClaimBullets(IF subjects = <<>> THEN <<NoNotableChanges>> ELSE subjects)

Subjects(cs) == [i \in 1..Len(cs) |-> cs[i].subject]

(***************************************************************************)
(* C7 as stated: on a changelog with non-empty content, the file written   *)
(* is the new entry, a blank line, then the previous content unchanged,    *)
(* and the value returned is the new entry.                                *)
(***************************************************************************)
C7_Original ==
    (pc = "done" /\ exc = "" /\ start.changelog.exists /\ start.changelog.content # <<>>) =>
        LET entry == ClaimEntry(new_version, Subjects(commits), today) IN
        /\ changelog_entry = entry
        /\ changelog.content = entry \o <<NL, NL>> \o start.changelog.content

(***************************************************************************)
(* C7 amended: on a changelog with non-empty content, the file written is  *)
(* the new entry, a blank line, then the previous content with its leading *)
(* and trailing whitespace removed; when the previous content is only      *)
(* whitespace the file is the new entry and its trailing blank line alone. *)
(* The value returned is the new entry.                                    *)
(***************************************************************************)
C7_PrependsStripped ==
    (pc = "done" /\ exc = "" /\ start.changelog.exists /\ start.changelog.content # <<>>) =>
        LET entry == ClaimEntry(new_version, Subjects(commits), today)
            old == start.changelog.content
            first == CHOOSE i \in 1..(Len(old) + 1) :
                        /\ i <= Len(old) => old[i] \notin {SP, NL}
                        /\ \A q \in 1..(i - 1) : old[q] \in {SP, NL}
            last == CHOOSE i \in 0..Len(old) :
                        /\ i >= 1 => old[i] \notin {SP, NL}
                        /\ \A q \in (i + 1)..Len(old) : old[q] \in {SP, NL}
        IN  /\ changelog_entry = entry
            /\ changelog.exists
            /\ changelog.content =
                  IF first <= last
                  THEN entry \o <<NL, NL>> \o SubSeq(old, first, last)
                  ELSE entry \o <<NL>>

\* a second entry above the one a previous call wrote, whose trailing line
\* breaks are gone
C7_Witness ==
    /\ pc = "done" /\ exc = ""
    /\ Len(commits) = 2
    /\ start.changelog.content = Combined(NewEntry(VersionText(0, 4, 1), <<>>, Date1), <<>>)
    /\ changelog.content # changelog_entry \o <<NL, NL>> \o start.changelog.content
    /\ contains(changelog.content, Header(VersionText(0, 4, 1), Date1))

(***************************************************************************)
(* The runs of main, described by their inputs.                            *)
(***************************************************************************)
Finished == pc = "idle" /\ runs # <<>>

\* the commits since the latest tag, as the repository has them
Visible == IF tags = <<>> THEN history ELSE SubSeq(history, 1, tags[1].since)

\* a commit with a subject that does not start with chore(release)
Eligible(c) ==
    /\ c.subject # <<>>
    /\ ~(/\ Len(c.subject) >= 4
         /\ c.subject[1] = T("chore") /\ c.subject[2] = T("(")
         /\ c.subject[3] = T("release") /\ c.subject[4] = T(")"))

EligibleCommits == SelectSeq(Visible, Eligible)

\* the version of a manifest: the digits of the first match of the pattern
HasVersion(content) == Matches(content) # {}

ManifestVersion(content) ==
    LET m == FirstMatch(content) IN SubSeq(content, m[2], m[2] + 4)

Triple(v) == <<v[1].n, v[3].n, v[5].n>>

\* the next version, by the rule of the three bump levels
ClaimBump(v, level) ==
    LET t == Triple(v) IN
    IF level = "major" THEN VersionText(t[1] + 1, 0, 0)
    ELSE IF level = "minor" THEN VersionText(t[1], t[2] + 1, 0)
    ELSE VersionText(t[1], t[2], t[3] + 1)

Less(a, b) ==
    \/ a[1] < b[1]
    \/ a[1] = b[1] /\ a[2] < b[2]
    \/ a[1] = b[1] /\ a[2] = b[2] /\ a[3] < b[3]

SinkUsable == ~(start.sink.set /\ ~start.sink.writable)

KV(key, value) == [key |-> key, value |-> value]

(***************************************************************************)
(* C3: when the manifest has a version line, git answers and no commit     *)
(* since the latest tag is eligible (empty log, or only empty subjects and *)
(* chore(release) subjects), main emits skip=true and nothing else, leaves *)
(* the manifest and the changelog as they were (an absent changelog stays  *)
(* absent) and exits 0.                                                    *)
(***************************************************************************)
C3_SkipLeavesFiles ==
    (/\ Finished
     /\ start.pubspec.exists /\ HasVersionLine(start.pubspec.content)
     /\ gitOk = "ok" /\ SinkUsable
     /\ EligibleCommits = <<>>) =>
        /\ exitCode = 0
        /\ emitted = <<KV("skip", <<T("true")>>)>>
        /\ pubspec = start.pubspec
        /\ changelog = start.changelog
        /\ sink.content =
              IF sink.set
              THEN start.sink.content \o <<T("skip"), T("="), T("true"), NL>>
              ELSE start.sink.content

\* a log with only a release commit, changelog absent before and after
C3_Witness ==
    /\ Finished
    /\ Len(runs) = 1
    /\ HasVersionLine(start.pubspec.content)
    /\ Visible # <<>> /\ EligibleCommits = <<>>
    /\ \E i \in 1..Len(Visible) : Visible[i].subject # <<>>
    /\ ~changelog.exists
    /\ sink.set
    /\ emitted = <<KV("skip", <<T("true")>>)>>
    /\ exitCode = 0

(***************************************************************************)
(* C5: a successful run with at least one eligible commit writes one and   *)
(* the same version N = bump(manifest version, level of the eligible       *)
(* commits) to the manifest, to the changelog header ## N - <date> and to  *)
(* the output version=N; the entry has one bullet per eligible commit, its *)
(* subject, in log order; the outputs are skip=false, version,             *)
(* release_notes in this order, release_notes being the entry written at   *)
(* the top of the changelog.                                               *)
(***************************************************************************)
C5_ReleaseConsistent ==
    (Finished /\ exitCode = 0 /\ EligibleCommits # <<>>) =>
        LET N == ClaimBump(ManifestVersion(start.pubspec.content), ClaimLevel(EligibleCommits))
            entry == ClaimEntry(N, Subjects(EligibleCommits), today)
        IN  /\ ManifestVersion(pubspec.content) = N
            /\ Len(changelog.content) > Len(entry)
            /\ SubSeq(changelog.content, 1, Len(entry) + 1) = entry \o <<NL>>
            /\ emitted = <<KV("skip", <<T("false")>>), KV("version", N),
                           KV("release_notes", entry)>>
            /\ sink.content =
                  IF sink.set
                  THEN start.sink.content
                       \o <<T("skip"), T("="), T("false"), NL>>
                       \o <<T("version"), T("=")>> \o N \o <<NL>>
                       \o <<T("release_notes"), T("<<EOF"), NL>> \o entry
                       \o <<NL, T("EOF"), NL>>
                  ELSE start.sink.content

\* feat: add X and fix: bug at 0.4.1 give 0.5.0 and two bullets
C5_Witness ==
    /\ Finished /\ exitCode = 0
    /\ Len(runs) = 1
    /\ Subjects(EligibleCommits) =
          <<<<T("feat"), T(":"), SP, T("add"), SP, T("X")>>, <<T("fix"), T(":"), SP, T("bug")>>>>
    /\ ManifestVersion(start.pubspec.content) = VersionText(0, 4, 1)
    /\ ManifestVersion(pubspec.content) = VersionText(0, 5, 0)
    /\ sink.set
    /\ emitted[2] = KV("version", VersionText(0, 5, 0))

(***************************************************************************)
(* C6: after any sequence of successful runs that starts with an absent or *)
(* empty changelog, the changelog holds exactly one entry per released     *)
(* run, newest first, the entries of the earlier runs below it in reverse  *)
(* order of the runs; the first released run creates the file.             *)
(***************************************************************************)
IsHeaderLine(line) == Len(line) >= 1 /\ line[1] = T("##")

IsBulletLine(line) == Len(line) >= 2 /\ line[1] = T("-") /\ line[2] = SP

\* the subjects of the bullet lines up to the next header
RECURSIVE BulletsUntilHeader(_)
BulletsUntilHeader(lines) ==
    IF lines = <<>> \/ IsHeaderLine(Head(lines)) THEN <<>>
    ELSE IF IsBulletLine(Head(lines))
    THEN <<SubSeq(Head(lines), 3, Len(Head(lines)))>> \o BulletsUntilHeader(Tail(lines))
    ELSE BulletsUntilHeader(Tail(lines))

\* the entries of a changelog, top first: version and bullets of each header
RECURSIVE ParseEntries(_)
ParseEntries(lines) ==
    IF lines = <<>> THEN <<>>
    ELSE IF IsHeaderLine(Head(lines))
    THEN <<[version |-> SubSeq(Head(lines), 3, 7),
            subjects |-> BulletsUntilHeader(Tail(lines))]>> \o ParseEntries(Tail(lines))
    ELSE ParseEntries(Tail(lines))

\* the released runs, most recent first
RECURSIVE ReleasedNewestFirst(_)
ReleasedNewestFirst(rs) ==
    IF rs = <<>> THEN <<>>
    ELSE LET r == rs[Len(rs)]
             rest == ReleasedNewestFirst(SubSeq(rs, 1, Len(rs) - 1))
         IN  IF r.released
             THEN <<[version |-> r.version, subjects |-> r.subjects]>> \o rest
             ELSE rest

C6_NewestFirst ==
    (/\ Finished
     /\ \A i \in 1..Len(runs) : runs[i].code = 0
     /\ runs[1].before.changelog.content = <<>>) =>
        /\ ParseEntries(split(changelog.content, "\n")) = ReleasedNewestFirst(runs)
        /\ \A i \in 1..Len(runs) :
              runs[i].released => runs[i].subjects = Subjects(EligibleCommits)
        /\ (\E i \in 1..Len(runs) : runs[i].released) => changelog.exists
        /\ \A i \in 1..Len(runs) :
              runs[i].released =>
                 ParseEntries(split(runs[i].after.changelog.content, "\n")) =
                    <<[version |-> runs[i].version, subjects |-> runs[i].subjects]>>
                    \o ParseEntries(split(runs[i].before.changelog.content, "\n"))

\* two releases in a row into a changelog that did not exist
C6_Witness ==
    /\ Finished
    /\ Len(runs) >= 2
    /\ runs[1].released /\ runs[2].released
    /\ ~runs[1].before.changelog.exists
    /\ Len(ParseEntries(split(changelog.content, "\n"))) >= 2
    /\ ParseEntries(split(changelog.content, "\n"))[1].version = runs[Len(runs)].version

(***************************************************************************)
(* C8: the exit code is 0 exactly when the run succeeds, by releasing or   *)
(* by finding nothing to release; a failure at any stage (a git command    *)
(* returning non-zero, no version in the manifest, a file that cannot be   *)
(* read or written) writes a message to stderr and ends the run with a     *)
(* non-zero exit code, and no stage after the failing one is executed.     *)
(***************************************************************************)
Pipeline ==
    <<"read_version", "latest_tag", "collect_commits", "classify",
      "replace_version", "update_changelog", "set_outputs">>

SkipPipeline == <<"read_version", "latest_tag", "collect_commits", "skip">>

\* the stage at which the inputs of this run make it fail, "" when none does
FailingStage ==
    IF ~start.pubspec.exists \/ ~HasVersion(start.pubspec.content) THEN "read_version"
    ELSE IF gitOk = "tag" THEN "latest_tag"
    ELSE IF gitOk = "log" THEN "collect_commits"
    ELSE IF EligibleCommits = <<>> THEN (IF SinkUsable THEN "" ELSE "skip")
    ELSE IF ~start.pubspec.writable THEN "replace_version"
    ELSE IF ~start.changelog.writable THEN "update_changelog"
    ELSE IF ~SinkUsable THEN "set_outputs"
    ELSE ""

IsPrefix(s, t) == Len(s) <= Len(t) /\ SubSeq(t, 1, Len(s)) = s

C8_ExitCode ==
    Finished =>
        /\ exitCode = 0 <=> FailingStage = ""
        /\ exitCode = 0 =>
              /\ stderr = <<>>
              /\ stages = IF EligibleCommits = <<>> THEN SkipPipeline ELSE Pipeline
        /\ exitCode # 0 =>
              /\ exitCode = 1
              /\ stderr # <<>>
              /\ stderr[Len(stderr)] = "Error: " \o runs[Len(runs)].exc
              /\ runs[Len(runs)].exc # ""
              /\ stages[Len(stages)] = FailingStage
              /\ IsPrefix(stages, Pipeline) \/ stages = SkipPipeline
              /\ gitOk # "ok" /\ HasVersion(start.pubspec.content) /\ start.pubspec.exists
                    => stderr[1] = "git: fatal"

\* git log fails: two messages on stderr, exit code 1, nothing after the stage
C8_Witness ==
    /\ Finished
    /\ exitCode = 1
    /\ gitOk = "log"
    /\ stages = <<"read_version", "latest_tag", "collect_commits">>
    /\ Len(stderr) = 2

(***************************************************************************)
(* C9: there is no rollback.  The manifest is written before the           *)
(* changelog, so a run that fails between the two writes ends non-zero     *)
(* with the new version in the manifest, the changelog as it was (no entry *)
(* for that version) and no output emitted; a run that fails before the    *)
(* manifest write (no version, a failing git command) leaves the manifest  *)
(* and the changelog as they were.                                         *)
(***************************************************************************)
HeaderVersions(content) ==
    LET es == ParseEntries(split(content, "\n")) IN {es[i].version : i \in 1..Len(es)}

C9_NoRollback ==
    /\ changelog # start.changelog => pubspec # start.pubspec
    /\ (Finished /\ FailingStage = "update_changelog") =>
          LET N == ClaimBump(ManifestVersion(start.pubspec.content),
                             ClaimLevel(EligibleCommits))
          IN  /\ exitCode # 0
              /\ ManifestVersion(pubspec.content) = N
              /\ pubspec # start.pubspec
              /\ changelog = start.changelog
              /\ N \notin HeaderVersions(changelog.content)
              /\ emitted = <<>>
              /\ sink = start.sink
    /\ (Finished /\ FailingStage \in {"read_version", "latest_tag", "collect_commits"}) =>
          /\ exitCode # 0
          /\ pubspec = start.pubspec
          /\ changelog = start.changelog

\* the changelog cannot be written: manifest at 0.5.0, changelog untouched
C9_Witness ==
    /\ Finished
    /\ exitCode = 1
    /\ stages[Len(stages)] = "update_changelog"
    /\ ManifestVersion(start.pubspec.content) = VersionText(0, 4, 1)
    /\ ManifestVersion(pubspec.content) = VersionText(0, 5, 0)
    /\ changelog = start.changelog
    /\ emitted = <<>>

(***************************************************************************)
(* C10: the manifest version never decreases.  A released run leaves a     *)
(* version strictly greater than the one it read, a skipped run and a run  *)
(* that failed before the manifest write leave the manifest unchanged, the *)
(* no-op check of _replace_version never fires in main, and a second run   *)
(* over the same commits bumps the version again.                          *)
(***************************************************************************)
LessEq(a, b) == a = b \/ Less(a, b)

NotDecreased(before, after) ==
    (after # before /\ HasVersion(before.content)) =>
        /\ HasVersion(after.content)
        /\ LessEq(Triple(ManifestVersion(before.content)), Triple(ManifestVersion(after.content)))

C10_VersionNeverDecreases ==
    /\ NotDecreased(start.pubspec, pubspec)
    /\ exc # "Failed to update version in pubspec.yaml"
    /\ Finished => \A i \in 1..Len(runs) :
          LET r == runs[i] IN
          /\ NotDecreased(r.before.pubspec, r.after.pubspec)
          /\ r.released =>
                Less(Triple(ManifestVersion(r.before.pubspec.content)),
                     Triple(ManifestVersion(r.after.pubspec.content)))
          /\ (r.code = 0 /\ ~r.released) => r.after.pubspec = r.before.pubspec
          /\ (r.code # 0 /\ r.stages[Len(r.stages)]
                 \in {"read_version", "latest_tag", "collect_commits"})
                => r.after.pubspec = r.before.pubspec
          /\ (i > 1 /\ runs[i - 1].released /\ r.code = 0) =>
                /\ r.released
                /\ r.subjects = runs[i - 1].subjects
                /\ Less(Triple(runs[i - 1].version), Triple(r.version))
          /\ i > 1 => NotDecreased(runs[1].before.pubspec, r.after.pubspec)

\* the same commits released twice: 0.4.1, then 0.5.0, then 0.6.0
C10_Witness ==
    /\ Finished
    /\ Len(runs) >= 2
    /\ runs[1].released /\ runs[2].released
    /\ ManifestVersion(runs[1].before.pubspec.content) = VersionText(0, 4, 1)
    /\ runs[1].version = VersionText(0, 5, 0)
    /\ runs[2].version = VersionText(0, 6, 0)

====
